---- MODULE Spec2Model ----
(***************************************************************************)
(* Orchestration layer of the Solana threshold-wallet demos of cb-mpc:     *)
(* the multi-party runs (key generation, signing) that the demo programs   *)
(* drive over a mock network, and what the programs do with the results.   *)
(*                                                                         *)
(* Programs (variable prog):                                               *)
(*   "complete"  solana-complete-demo   (src/unnamed/part_000)             *)
(*   "generator" solana-wallet-generator (src/unnamed/part_001, 1..164)    *)
(*   "transfer"  solana-devnet-transfer  (src/unnamed/part_001, 165..573)  *)
(*   "signer"    solana-transaction-signer.go                              *)
(*   "frost"     demos-go/cmd/solana-frost-demo/main.go                    *)
(*                                                                         *)
(* The MPC primitive library (mpc.NewJobMP, mpc.EDDSAMPCSign, ...) and the *)
(* mock network are not part of the sources at hand; their behaviour is    *)
(* taken from the specification: a protocol call sends to every peer and   *)
(* then blocks, without timeout, until a message of every peer arrived.    *)
(***************************************************************************)
EXTENDS Integers, Sequences, FiniteSets, TLC

\* ------------------------------------------------------------------ bounds
\* number of distinct public keys a key generation may come out with
NumQ == 2
\* signature lengths the signing primitive may return: 0 and 64 +/- MaxLenDev
MaxLenDev == 1
\* how far the threshold and the party count of a session that are tried on
\* the contracts go beyond the number of parties
ExtraParties == 1
\* how far around the needed amount the balances of the wallet are tried
BalanceSpread == 1
\* the polls of the waiting page are counted up to this number
MaxPolls == 5
\* the calls of the auto-execute endpoint are counted up to this number
MaxCalls == 2

\* ------------------------------------------------------- program constants
nParties == 3
nQuorumParties == 2
signatureReceiver == 0
SignatureSize == 64
\* the third argument count handed to NewJobMP by the complete demo
CompleteJobParties == 3

Progs == {"complete", "generator", "transfer", "signer", "frost"}
Runs == {"keygen", "sign"}
Parties == 0 .. (nParties - 1)

\* the public key behind the hard-coded wallet address (fee payer)
WalletQ == 0
FreshQs == 1 .. NumQ
NoQ == -1
Message == "txmsg"
NoMsg == "none"

SigLens == {0} \cup ((SignatureSize - MaxLenDev) .. (SignatureSize + MaxLenDev))

NoSig == [len |-> 0, key |-> NoQ, msg |-> NoMsg, by |-> -1]
NoShare == [owner |-> "none", Q |-> NoQ]
NoResp == [err |-> FALSE, share |-> NoShare, sig |-> NoSig]

\* output of a member that is not the signature receiver: nothing, or bytes
\* that are the signature of nothing
JunkSig(i) == [len |-> SignatureSize, key |-> NoQ, msg |-> NoMsg, by |-> i]

VARIABLES
    prog,            \* the program that runs
    mpc,             \* position of the main goroutine
    tpc,             \* tpc[r][i]: position of the goroutine of party i in run r
    jobOpen,         \* jobOpen[r][i]: the JobMP of that goroutine is open
    inbox,           \* inbox[r][i]: peers whose protocol message reached party i
    resp,            \* resp[r][i]: what the protocol call returned to party i
    ch,              \* ch[r]: the buffered result channel of run r
    egErr,           \* errgroup: the first error recorded (g.err != nil)
    collected,       \* loop counter of the collecting loop
    keyShares,       \* keyShares / parties: one slot per party index
    finalSignature,  \* finalSignature / transfer.MPCSignature
    retErr,          \* the orchestrating function returned an error
    retSig,          \* the signature the signing function returned
    txSig,           \* tx.Signatures[0]
    sent,            \* the transfer of the program was handed to
                     \* SendTransaction
    printed,         \* what the wallet generator has written out
    acK,             \* threshold handed to createThresholdAccessStructure
    quorum,          \* quorum list handed to ToAdditiveShare
    jobTotal,        \* party count handed to mpc.NewJobMP
    ac,              \* the access structure that was built
    convArgs,        \* convArgs[i]: arguments of the i-th ToAdditiveShare call
    messengers,      \* number of endpoints of the mock network created
    balance,         \* balance.Value: lamports read before the transfer
    newBalance,      \* newBalance.Value: lamports read after the transfer
    transferred,     \* balance.Value - newBalance.Value as the program has it
    funded,          \* complete demo: sendSOL has handed the funding
                     \* transfer to SendTransaction
    tx,              \* how far the transaction of a direct transfer has got
    wticks,          \* waitForConfirmation: ticker periods that have passed
    tickReady,       \* waitForConfirmation: a tick waits in ticker.C
    status,          \* waitForConfirmation: the status the last poll acted on
    wret,            \* waitForConfirmation: what it returned
    ppc,             \* waiting page: what the script is doing
    ptimer,          \* waiting page: delays (ms) of the pending setTimeouts
    initiated,       \* Party 0 has initiated DKG
    netUp,           \* requests of the page reach their server
    polls,           \* waiting page: polls started (saturating)
    inFlight,        \* waiting page: poll requests not yet answered
    autoCalls,       \* waiting page: calls of /api/dkg/auto-execute
    shown,           \* waiting page: what the page shows
    funds            \* lamports the wallet holds when the program starts

vars == << prog, mpc, tpc, jobOpen, inbox, resp, ch, egErr, collected,
           keyShares, finalSignature, retErr, retSig, txSig, sent, printed,
           acK, quorum, jobTotal, ac, convArgs, messengers,
           balance, newBalance, transferred, funded, tx, wticks, tickReady, status,
           wret, ppc, ptimer, initiated, netUp, polls, inFlight, autoCalls,
           shown, funds >>

\* the balances of the wallet as the programs have read them
chainVars == << balance, newBalance, transferred, funded >>
\* the transaction of a direct transfer and the wait for its confirmation
clientVars == << tx, wticks, tickReady, status, wret >>
\* the DKG waiting page of the web demo and the servers it talks to
pageVars == << ppc, ptimer, initiated, netUp, polls, inFlight, autoCalls,
               shown >>
sideVars == << chainVars, clientVars, pageVars >>

\* what a program is started with, and what its set-up leaves behind
inVars == << prog, acK, quorum, jobTotal, funds >>
setupVars == << ac, convArgs, messengers >>

taskVars == << tpc, jobOpen, inbox, resp >>
outVars == << retErr, retSig, txSig, sent, printed >>

\* --------------------------------------------------------- configuration
UsesErrgroup(p) == p \in {"complete", "generator"}

\* number of goroutines a run launches (= endpoints of its mock network)
NTasks(p, r) ==
    IF p = "complete" THEN nQuorumParties ELSE nParties

Members(p, r) == 0 .. (NTasks(p, r) - 1)

\* the party count handed to NewJobMP
TotalParties(p, r) == jobTotal

\* the literals of the sources
CodeThreshold == 2
CodeQuorum == << "server", "pin" >>
CodeJobTotal(p) == IF p = "complete" THEN CompleteJobParties ELSE nParties

NoBalance == -1
NoAmount == << >>

\* solana.LAMPORTS_PER_SOL, TransferAmount = 0.01 SOL, the fee reserve
LamportsPerSol == 1000000000
TransferLamports == LamportsPerSol \div 100
FeeLamports == 5000
NeededLamports == TransferLamports + FeeLamports

\* balances the node may report
Balances ==
    {0} \cup { NeededLamports + d : d \in (0 - BalanceSpread) .. BalanceSpread }

\* the programs that talk to the devnet node about a transfer
ClientProgs == {"fixed", "real", "transfer"}
NoStatus == [kind |-> "none", state |-> "none", err |-> FALSE]
\* what the browser shows before the waiting page is there
NoPage == [state |-> "none", errorMsg |-> FALSE]

NoAC == [root |-> [kind |-> "none"], curve |-> "none"]
NoConv == [quorum |-> << >>, ac |-> NoAC]

PartyNames(p) ==
    IF p \in {"complete", "generator"}
    THEN << "server", "kms", "pin" >>
    ELSE << "server", "pin-device", "offline-kms" >>

StartPc(p) ==
    CASE p = "complete" -> "c_fund"
      [] p = "generator" -> "g_start"
      [] p = "transfer" -> "t_start"
      [] p = "signer" -> "s_start"
      [] p = "frost" -> "f_start"
      [] p = "fixed" -> "d_balance"
      [] p = "real" -> "d_airdrop"
      [] p = "page" -> "p_browser"

ExitPcs == {"c_fatal", "c_done", "g_fatal", "g_done", "t_fatal", "t_done",
            "s_fatal", "s_done", "f_fatal", "f_done",
            "d_fatal", "d_exit", "d_done"}

\* goroutines run only while the process lives
Alive == mpc \notin ExitPcs

\* everything but the arguments the program is started with
InitRest ==
    /\ mpc = StartPc(prog)
    /\ tpc = [r \in Runs |-> [i \in Parties |-> "idle"]]
    /\ jobOpen = [r \in Runs |-> [i \in Parties |-> FALSE]]
    /\ inbox = [r \in Runs |-> [i \in Parties |-> {}]]
    /\ resp = [r \in Runs |-> [i \in Parties |-> NoResp]]
    /\ ch = [r \in Runs |-> << >>]
    /\ egErr = FALSE
    /\ collected = 0
    /\ keyShares = [i \in Parties |-> NoShare]
    /\ finalSignature = NoSig
    /\ retErr = FALSE
    /\ retSig = NoSig
    /\ txSig = NoSig
    /\ sent = FALSE
    /\ printed = {}
    /\ ac = NoAC
    /\ convArgs = [i \in Parties |-> NoConv]
    /\ messengers = 0
    /\ balance = NoBalance
    /\ newBalance = NoBalance
    /\ transferred = NoAmount
    /\ funded = FALSE
    /\ tx = "none"
    /\ wticks = 0
    /\ tickReady = FALSE
    /\ status = NoStatus
    /\ wret = "none"
    /\ ppc = "off"
    /\ ptimer = << >>
    /\ initiated = FALSE
    /\ netUp = TRUE
    /\ polls = 0
    /\ inFlight = 0
    /\ autoCalls = 0
    /\ shown = NoPage

\* the wallet the devnet transfer pays from is empty or holds what the
\* transfer needs
StartFunds(p) ==
    IF p = "transfer" THEN {0, NeededLamports} ELSE {NeededLamports}

\* the programs as written
Init ==
    /\ prog \in Progs
    /\ acK = CodeThreshold
    /\ quorum = CodeQuorum
    /\ jobTotal = CodeJobTotal(prog)
    /\ funds \in StartFunds(prog)
    /\ InitRest


\* ------------------------------------------------------------- goroutines
\* a run's protocol is carried out among the members that take part in it
Peers(r, i) == Members(prog, r) \ {i}

\* where a goroutine goes once its protocol call has returned
AfterOk(p) == IF UsesErrgroup(p) THEN "write" ELSE "report"
AfterErr(p) == IF UsesErrgroup(p) THEN "return" ELSE "report"

\* Session contract: open succeeds iff the index lies in the party range and
\* there is one name per party
NewJobMPOk(total, idx, names) ==
    /\ 0 <= idx
    /\ idx < total
    /\ Len(names) = total

\* variant: the error of NewJobMP is dropped
JobErrIgnored(total, idx, names) == TRUE

\* job, err := mpc.NewJobMP(...); if err != nil { ...; return }: the
\* goroutine goes on to its protocol call iff err is nil
JobErrNil(total, idx, names) == NewJobMPOk(total, idx, names)

\* job, err := mpc.NewJobMP(...); if err != nil { report }; defer job.Free()
TaskOpen(r, i) ==
    /\ Alive
    /\ tpc[r][i] = "new"
    /\ IF JobErrNil(TotalParties(prog, r), i, PartyNames(prog))
       THEN /\ jobOpen' = [jobOpen EXCEPT ![r][i] = TRUE]
            /\ tpc' = [tpc EXCEPT ![r][i] = "call"]
            /\ resp' = resp
       ELSE /\ jobOpen' = jobOpen
            /\ tpc' = [tpc EXCEPT ![r][i] = AfterErr(prog)]
            /\ resp' = [resp EXCEPT ![r][i].err = TRUE]
    /\ UNCHANGED << inVars, sideVars, setupVars, mpc, inbox, ch, egErr, collected, keyShares,
                    finalSignature, outVars >>

\* the protocol call sends its message to every peer ...
ProtoSendOk(r, i) ==
    /\ Alive
    /\ tpc[r][i] = "call"
    /\ inbox' = [inbox EXCEPT ![r] =
                    [j \in Parties |->
                        IF j \in Peers(r, i) THEN inbox[r][j] \cup {i}
                        ELSE inbox[r][j]]]
    /\ tpc' = [tpc EXCEPT ![r][i] = "wait"]
    /\ UNCHANGED << inVars, sideVars, setupVars, mpc, jobOpen, resp, ch, egErr, collected, keyShares,
                    finalSignature, outVars >>

\* ... or fails before anything was sent (TransportFailure)
ProtoSendFail(r, i) ==
    /\ Alive
    /\ tpc[r][i] = "call"
    /\ resp' = [resp EXCEPT ![r][i].err = TRUE]
    /\ tpc' = [tpc EXCEPT ![r][i] = AfterErr(prog)]
    /\ UNCHANGED << inVars, sideVars, setupVars, mpc, jobOpen, inbox, ch, egErr, collected, keyShares,
                    finalSignature, outVars >>

\* receive-next: blocks, without timeout, until every peer's message is there
Received(r, i) == Peers(r, i) \subseteq inbox[r][i]

\* the key shares the members of the signing run put into their requests
ReqShare(i) == keyShares[i]
SignQs == { ReqShare(j).Q : j \in Members(prog, "sign") }

\* what the signing primitive hands to member i on success
SignOutputs(i) ==
    IF i = signatureReceiver
    THEN { IF l = 0 THEN NoSig
           ELSE [len |-> l, key |-> ReqShare(i).Q, msg |-> Message, by |-> i] :
           l \in SigLens }
    ELSE { NoSig, JunkSig(i) }

\* the protocol call returns a result ...
ProtoRecvOk(r, i) ==
    /\ Alive
    /\ tpc[r][i] = "wait"
    /\ Received(r, i)
    /\ \/ /\ r = "keygen"
          /\ \E q \in FreshQs :
                resp' = [resp EXCEPT ![r][i].share =
                            [owner |-> PartyNames(prog)[i + 1], Q |-> q]]
       \/ /\ r = "sign"
          /\ Cardinality(SignQs) = 1
          /\ \E s \in SignOutputs(i) :
                resp' = [resp EXCEPT ![r][i].sig = s]
    /\ tpc' = [tpc EXCEPT ![r][i] = AfterOk(prog)]
    /\ UNCHANGED << inVars, sideVars, setupVars, mpc, jobOpen, inbox, ch, egErr, collected, keyShares,
                    finalSignature, outVars >>

\* ... or an error (ProtocolMismatch), after its own message went out
ProtoRecvFail(r, i) ==
    /\ Alive
    /\ tpc[r][i] = "wait"
    /\ Received(r, i)
    /\ resp' = [resp EXCEPT ![r][i].err = TRUE]
    /\ tpc' = [tpc EXCEPT ![r][i] = AfterErr(prog)]
    /\ UNCHANGED << inVars, sideVars, setupVars, mpc, jobOpen, inbox, ch, egErr, collected, keyShares,
                    finalSignature, outVars >>

\* variant: the receiver test is missing
IsReceiverAny(idx) == TRUE

\* if partyIdx == signatureReceiver / if result.idx == signatureReceiver
IsReceiver(idx) == idx = signatureReceiver

\* variant: the goroutine writes the slot of its right-hand neighbour
WriteSlotShifted(partyIdx) == (partyIdx + 1) % nParties

\* keyShares[partyIdx] = ...: the slot a goroutine writes is its own index
WriteSlot(partyIdx) == partyIdx

\* errgroup goroutine, success path: keyShares[partyIdx] = resp.KeyShare, or
\* if partyIdx == signatureReceiver { finalSignature = resp.Signature }
EgTaskWrite(r, i) ==
    /\ Alive
    /\ UsesErrgroup(prog)
    /\ tpc[r][i] = "write"
    /\ IF r = "keygen"
       THEN /\ keyShares' = [keyShares EXCEPT ![WriteSlot(i)] = resp[r][i].share]
            /\ finalSignature' = finalSignature
       ELSE /\ finalSignature' =
                  IF IsReceiver(i) THEN resp[r][i].sig ELSE finalSignature
            /\ keyShares' = keyShares
    /\ tpc' = [tpc EXCEPT ![r][i] = "return"]
    /\ UNCHANGED << inVars, sideVars, setupVars, mpc, jobOpen, inbox, resp, ch, egErr, collected,
                    outVars >>

\* errgroup goroutine returns: the deferred job.Free() runs, the group keeps
\* the first error and counts the goroutine as finished
EgTaskReturn(r, i) ==
    /\ Alive
    /\ UsesErrgroup(prog)
    /\ tpc[r][i] = "return"
    /\ jobOpen' = [jobOpen EXCEPT ![r][i] = FALSE]
    /\ egErr' = (egErr \/ resp[r][i].err)
    /\ tpc' = [tpc EXCEPT ![r][i] = "done"]
    /\ UNCHANGED << inVars, sideVars, setupVars, mpc, inbox, resp, ch, collected, keyShares,
                    finalSignature, outVars >>

\* variant: a channel with room for one result
ChanCapOne(r) == 1

\* make(chan keygenResult, nParties) / make(chan signResult, nParties)
ChanCap(r) == nParties

\* channel goroutine: keygenCh <- keygenResult{...} / signCh <- signResult{...}
ChTaskSend(r, i) ==
    /\ Alive
    /\ ~UsesErrgroup(prog)
    /\ tpc[r][i] = "report"
    /\ Len(ch[r]) < ChanCap(r)
    /\ ch' = [ch EXCEPT ![r] = Append(@, [idx |-> i, err |-> resp[r][i].err,
                                           share |-> resp[r][i].share,
                                           sig |-> resp[r][i].sig])]
    /\ tpc' = [tpc EXCEPT ![r][i] = IF jobOpen[r][i] THEN "free" ELSE "done"]
    /\ UNCHANGED << inVars, sideVars, setupVars, mpc, jobOpen, inbox, resp, egErr, collected,
                    keyShares, finalSignature, outVars >>

\* channel goroutine returns after its send: the deferred job.Free() runs
ChTaskFree(r, i) ==
    /\ Alive
    /\ ~UsesErrgroup(prog)
    /\ tpc[r][i] = "free"
    /\ jobOpen' = [jobOpen EXCEPT ![r][i] = FALSE]
    /\ tpc' = [tpc EXCEPT ![r][i] = "done"]
    /\ UNCHANGED << inVars, sideVars, setupVars, mpc, inbox, resp, ch, egErr, collected, keyShares,
                    finalSignature, outVars >>

TaskStep(r, i) ==
    \/ TaskOpen(r, i)
    \/ ProtoSendOk(r, i)
    \/ ProtoSendFail(r, i)
    \/ ProtoRecvOk(r, i)
    \/ ProtoRecvFail(r, i)
    \/ EgTaskWrite(r, i)
    \/ EgTaskReturn(r, i)
    \/ ChTaskSend(r, i)
    \/ ChTaskFree(r, i)

\* the go statements of one run
Launched(r) ==
    [tpc EXCEPT ![r] = [i \in Parties |->
                           IF i \in Members(prog, r) THEN "new" ELSE "idle"]]

\* variant: the wait ends with the first goroutine that returns
AllDoneAny(r) == \E i \in Members(prog, r) : tpc[r][i] = "done"

\* eg.Wait(): every goroutine of the group has returned
AllDone(r) == \A i \in Members(prog, r) : tpc[r][i] = "done"


\* ------------------------------------------------------ access structure
Range(q) == { q[n] : n \in 1 .. Len(q) }

\* mpc.Leaf(name)
Leaf(name) == [kind |-> "leaf", name |-> name]

\* mpc.Threshold(label, k, children...): the call has one result, the node
\* that createThresholdAccessStructure puts at the root; the body of
\* mpc.Threshold is not part of the sources, and both callers pass the
\* threshold 2 with three party names
Threshold(label, k, children) ==
    [kind |-> "threshold", label |-> label, k |-> k, children |-> children]

\* variant: the last party gets no leaf
createThresholdAccessStructureShort(partyNames, threshold) ==
    [root |-> Threshold("", threshold,
                        [n \in 1 .. (Len(partyNames) - 1) |->
                            Leaf(partyNames[n])]),
     curve |-> "ed25519"]

\* createThresholdAccessStructure: one leaf per party name under one
\* threshold root; the function has no error result
createThresholdAccessStructure(partyNames, threshold) ==
    [root |-> Threshold("", threshold,
                        [n \in 1 .. Len(partyNames) |-> Leaf(partyNames[n])]),
     curve |-> "ed25519"]

\* a threshold node is well formed iff 1 <= k <= len(children)
RECURSIVE ValidNode(_)
ValidNode(node) ==
    IF node.kind = "leaf" THEN TRUE
    ELSE /\ node.kind = "threshold"
         /\ Len(node.children) > 0
         /\ 1 <= node.k
         /\ node.k <= Len(node.children)
         /\ \A n \in 1 .. Len(node.children) : ValidNode(node.children[n])

\* satisfies(structure, name_subset): a leaf iff its party is in S, a
\* threshold node iff at least k of its children are satisfied
RECURSIVE Satisfies(_, _)
Satisfies(node, S) ==
    IF node.kind = "leaf" THEN node.name \in S
    ELSE Cardinality({ n \in 1 .. Len(node.children) :
                          Satisfies(node.children[n], S) }) >= node.k

\* key.ToAdditiveShare(ac, quorum): the structure is validated at first use,
\* then the quorum must satisfy it
ToAdditiveShareOk(a, q) ==
    /\ ValidNode(a.root)
    /\ Satisfies(a.root, Range(q))

\* --------------------------------------- solana-complete-demo (part_000)
\* copy(signature[:], signatureBytes): a 64-byte value whatever the source
\* length; only a 64-byte source is carried over unchanged
Copy64(s) ==
    IF s.len = SignatureSize THEN s
    ELSE [len |-> SignatureSize, key |-> NoQ, msg |-> NoMsg, by |-> s.by]

\* variant: the error of ToAdditiveShare is dropped
CompleteConvertsAlways(a, q) == TRUE

\* s1Add, err := s1Key.ToAdditiveShare(ac, quorum); if err != nil { return }
\* (and the same for s3Key): the function goes on iff the conversion worked
CompleteConverts(a, q) == ToAdditiveShareOk(a, q)

\* variant: the second conversion is handed its own, reversed list
QuorumArgOwn(i, q) ==
    IF i = 1 THEN [n \in 1 .. Len(q) |-> q[Len(q) + 1 - n]] ELSE q

\* the quorum argument of the conversion of parties[i]
QuorumArg(i, q) == q

\* performMPCSigning up to the go statements: the access structure is built,
\* the two stored shares become additive shares of the quorum, the mock
\* network is created and one goroutine per additive share is started
\* main up to the call of performMPCSigning: the balances are read,
\* sendSOL signs the funding transfer with the key of the source wallet and
\* hands it to SendTransaction, the new balance is read and the transaction
\* to be signed is built; every error ends the program by log.Fatal
CompleteFund ==
    /\ prog = "complete"
    /\ mpc = "c_fund"
    /\ \/ /\ funded' = FALSE
          /\ mpc' = "c_fatal"
       \/ /\ funded' = TRUE
          /\ mpc' \in {"c_fatal", "c_start"}
    /\ UNCHANGED << inVars, balance, newBalance, transferred, clientVars,
                    pageVars, setupVars, taskVars, ch, egErr, collected,
                    keyShares, finalSignature, outVars >>

CompleteStart ==
    /\ prog = "complete"
    /\ mpc = "c_start"
    /\ LET a == createThresholdAccessStructure(PartyNames(prog), acK) IN
       /\ ac' = a
       /\ IF CompleteConverts(a, quorum)
          THEN /\ convArgs' = [i \in Parties |->
                                 IF i \in Members(prog, "sign")
                                 THEN [quorum |-> QuorumArg(i, quorum),
                                       ac |-> a]
                                 ELSE NoConv]
               /\ keyShares' = [i \in Parties |->
                        CASE i = 0 -> [owner |-> "server", Q |-> WalletQ]
                          [] i = 1 -> [owner |-> "pin", Q |-> WalletQ]
                          [] OTHER -> NoShare]
               /\ messengers' = nQuorumParties
               /\ tpc' = Launched("sign")
               /\ mpc' = "c_wait"
               /\ retErr' = retErr
          ELSE /\ retErr' = TRUE
               /\ mpc' = "c_fatal"
               /\ UNCHANGED << convArgs, keyShares, messengers, tpc >>
    /\ UNCHANGED << inVars, sideVars, jobOpen, inbox, resp, ch, egErr, collected,
                    finalSignature, retSig, txSig, sent, printed >>

\* UnmarshalBinary or curve.NewEd25519 returned an error: performMPCSigning
\* returns it before the access structure is built (the refusal of
\* ToAdditiveShare is the ELSE branch of CompleteStart)
CompleteSetupFail ==
    /\ prog = "complete"
    /\ mpc = "c_start"
    /\ retErr' = TRUE
    /\ mpc' = "c_fatal"
    /\ UNCHANGED << inVars, sideVars, setupVars, taskVars, ch, egErr, collected, keyShares,
                    finalSignature, retSig, txSig, sent, printed >>

\* variant: the error of eg.Wait() is dropped
CompleteAcceptsNoErr(e, sig) == sig.len # 0

\* what performMPCSigning returns once eg.Wait() has returned e
CompleteAccepts(e, sig) == ~e /\ sig.len # 0

\* variant: the additive shares outlive the call
KeptShares(shares) == shares

\* defer s1Add.Free(); defer s3Add.Free(): run when performMPCSigning returns
FreedShares(shares) == [i \in Parties |-> NoShare]

\* eg.Wait(); the len(finalSignature) == 0 test; the caller's log.Fatalf
CompleteWait ==
    /\ prog = "complete"
    /\ mpc = "c_wait"
    /\ AllDone("sign")
    /\ IF CompleteAccepts(egErr, finalSignature)
       THEN /\ retSig' = finalSignature
            /\ retErr' = FALSE
            /\ mpc' = "c_apply"
       ELSE /\ retSig' = NoSig
            /\ retErr' = TRUE
            /\ mpc' = "c_fatal"
    /\ keyShares' = FreedShares(keyShares)
    /\ UNCHANGED << inVars, sideVars, setupVars, taskVars, ch, egErr, collected,
                    finalSignature, txSig, sent, printed >>

\* copy(signature[:], signatureBytes); tx.Signatures = {signature}
CompleteApply ==
    /\ prog = "complete"
    /\ mpc = "c_apply"
    /\ txSig' = Copy64(retSig)
    /\ mpc' = "c_send"
    /\ UNCHANGED << inVars, sideVars, setupVars, taskVars, ch, egErr, collected, keyShares,
                    finalSignature, retErr, retSig, sent, printed >>

\* client.SendTransaction(ctx, tx)
CompleteSend ==
    /\ prog = "complete"
    /\ mpc = "c_send"
    /\ sent' = TRUE
    /\ mpc' = "c_done"
    /\ UNCHANGED << inVars, sideVars, setupVars, taskVars, ch, egErr, collected, keyShares,
                    finalSignature, retErr, retSig, txSig, printed >>

\* ------------------------------------ solana-wallet-generator (part_001)
GeneratorStart ==
    /\ prog = "generator"
    /\ mpc = "g_start"
    /\ tpc' = Launched("keygen")
    /\ mpc' = "g_wait"
    /\ messengers' = nParties
    /\ ac' = createThresholdAccessStructure(PartyNames(prog), acK)
    /\ UNCHANGED << inVars, sideVars, convArgs, jobOpen, inbox, resp, ch, egErr, collected,
                    keyShares, finalSignature, outVars >>

\* variant: the error of eg.Wait() is dropped
GeneratorAcceptsAll(e, shares) == TRUE

\* the run is taken over iff eg.Wait() returned no error
GeneratorAccepts(e, shares) == ~e

\* if err := eg.Wait(); err != nil { log.Fatalf(...) }
GeneratorWait ==
    /\ prog = "generator"
    /\ mpc = "g_wait"
    /\ AllDone("keygen")
    /\ IF GeneratorAccepts(egErr, keyShares)
       THEN /\ retErr' = FALSE
            /\ mpc' = "g_q"
       ELSE /\ retErr' = TRUE
            /\ mpc' = "g_fatal"
    /\ UNCHANGED << inVars, sideVars, setupVars, taskVars, ch, egErr, collected, keyShares,
                    finalSignature, retSig, txSig, sent, printed >>

\* keyShares[0].Q(), GetX() and its length test (log.Fatal when they fail);
\* then the address and the public key are printed
GeneratorExtractQ ==
    /\ prog = "generator"
    /\ mpc = "g_q"
    /\ \E ok \in BOOLEAN :
          IF ok
          THEN /\ printed' = printed \cup {[kind |-> "address",
                                            owner |-> "wallet",
                                            Q |-> keyShares[0].Q]}
               /\ mpc' = "g_marshal"
          ELSE /\ printed' = printed
               /\ mpc' = "g_fatal"
    /\ UNCHANGED << inVars, sideVars, setupVars, taskVars, ch, egErr, collected, keyShares,
                    finalSignature, retErr, retSig, txSig, sent >>

\* MarshalBinary of the three shares (log.Fatal when one fails), base64, print
GeneratorMarshal ==
    /\ prog = "generator"
    /\ mpc = "g_marshal"
    /\ \E ok \in BOOLEAN :
          IF ok
          THEN /\ printed' = printed \cup
                     { [kind |-> "share", owner |-> keyShares[i].owner,
                        Q |-> keyShares[i].Q] : i \in Parties }
               /\ mpc' = "g_done"
          ELSE /\ printed' = printed
               /\ mpc' = "g_fatal"
    /\ UNCHANGED << inVars, sideVars, setupVars, taskVars, ch, egErr, collected, keyShares,
                    finalSignature, retErr, retSig, txSig, sent >>


\* ------------- keygen + signing over result channels (signer, transfer)
\* variant: the loop is left one result early
KeygenLoopDoneEarly(n) == n = nParties - 1

\* for i := 0; i < nParties; i++: the loop is left after nParties results
KeygenLoopDone(n) == n = nParties

\* for i := 0; i < nParties; i++ { result := <-keygenCh; ... }, one iteration;
\* after the last one the signing goroutines are started
CollectKeygen(fatalPc, nextPc) ==
    /\ ch["keygen"] # << >>
    /\ LET result == Head(ch["keygen"]) IN
       /\ ch' = [ch EXCEPT !["keygen"] = Tail(@)]
       /\ IF result.err
          THEN /\ retErr' = TRUE
               /\ mpc' = fatalPc
               /\ UNCHANGED << keyShares, collected, tpc >>
          ELSE /\ retErr' = retErr
               /\ keyShares' = [keyShares EXCEPT ![result.idx] = result.share]
               /\ IF KeygenLoopDone(collected + 1)
                  THEN /\ collected' = 0
                       /\ tpc' = Launched("sign")
                       /\ mpc' = nextPc
                  ELSE /\ collected' = collected + 1
                       /\ UNCHANGED << tpc, mpc >>
    /\ UNCHANGED << inVars, sideVars, setupVars, jobOpen, inbox, resp, egErr, finalSignature,
                    retSig, txSig, sent, printed >>

\* for i := 0; i < nParties; i++ { result := <-signCh; ... }, one iteration
CollectSign(fatalPc, nextPc) ==
    /\ ch["sign"] # << >>
    /\ LET result == Head(ch["sign"]) IN
       /\ ch' = [ch EXCEPT !["sign"] = Tail(@)]
       /\ IF result.err
          THEN /\ retErr' = TRUE
               /\ mpc' = fatalPc
               /\ UNCHANGED << finalSignature, collected >>
          ELSE /\ retErr' = retErr
               /\ finalSignature' =
                     IF IsReceiver(result.idx) /\ result.sig.len > 0
                     THEN result.sig ELSE finalSignature
               /\ IF collected + 1 = nParties
                  THEN /\ collected' = 0
                       /\ mpc' = nextPc
                  ELSE /\ collected' = collected + 1
                       /\ mpc' = mpc
    /\ UNCHANGED << inVars, sideVars, setupVars, taskVars, egErr, keyShares, retSig, txSig, sent,
                    printed >>

\* -------------------------------------- solana-transaction-signer.go
SignerStart ==
    /\ prog = "signer"
    /\ mpc = "s_start"
    /\ tpc' = Launched("keygen")
    /\ mpc' = "s_kcollect"
    /\ messengers' = nParties
    /\ UNCHANGED << inVars, sideVars, ac, convArgs, jobOpen, inbox, resp, ch, egErr, collected,
                    keyShares, finalSignature, outVars >>

SignerCollectKeygen ==
    /\ prog = "signer"
    /\ mpc = "s_kcollect"
    /\ CollectKeygen("s_fatal", "s_scollect")

SignerCollectSign ==
    /\ prog = "signer"
    /\ mpc = "s_scollect"
    /\ CollectSign("s_fatal", "s_check")

\* len(finalSignature) == 0 and len(finalSignature) != 64 both return an error
SignerAccepts(sig) == sig.len # 0 /\ sig.len = SignatureSize

SignerCheck ==
    /\ prog = "signer"
    /\ mpc = "s_check"
    /\ IF SignerAccepts(finalSignature)
       THEN /\ retErr' = FALSE
            /\ mpc' = "s_done"
       ELSE /\ retErr' = TRUE
            /\ mpc' = "s_fatal"
    /\ UNCHANGED << inVars, sideVars, setupVars, taskVars, ch, egErr, collected, keyShares,
                    finalSignature, retSig, txSig, sent, printed >>

\* ---------------------------------- solana-devnet-transfer (part_001)
\* variant: only an empty wallet counts as demo mode
DemoModeZeroOnly(b) == b = 0

\* if balance.Value < transferLamports+5000 { demoMode = true }
DemoMode(b) == b < TransferLamports + FeeLamports

\* main up to the go statements of signWithMPC: the balance is read, the
\* transaction is built, the key generation is started
\* main up to the call of signWithMPC: GetBalance or
\* createSolanaTransaction fails and main ends by log.Fatal, or the balance
\* is read and the transaction created
TransferPrepare(ok) ==
    \/ /\ ~ok
       /\ \/ UNCHANGED << balance, tx >>
          \/ /\ balance' = funds
             /\ tx' = tx
    \/ /\ ok
       /\ balance' = funds
       /\ tx' = "created"

\* main from GetBalance into signWithMPC, up to the first go statement;
\* MarshalBinary or curve.NewEd25519 may fail before it
TransferStart ==
    /\ prog = "transfer"
    /\ mpc = "t_start"
    /\ \/ /\ TransferPrepare(FALSE)
          /\ mpc' = "t_fatal"
          /\ UNCHANGED << tpc, messengers, retErr >>
       \/ /\ TransferPrepare(TRUE)
          /\ retErr' = TRUE
          /\ mpc' = "t_fatal"
          /\ UNCHANGED << tpc, messengers >>
       \/ /\ TransferPrepare(TRUE)
          /\ tpc' = Launched("keygen")
          /\ mpc' = "t_kcollect"
          /\ messengers' = nParties
          /\ retErr' = retErr
    /\ UNCHANGED << inVars, newBalance, transferred, funded, wticks, tickReady,
                    status, wret, pageVars, ac, convArgs, jobOpen, inbox,
                    resp, ch, egErr, collected, keyShares, finalSignature,
                    retSig, txSig, sent, printed >>

TransferCollectKeygen ==
    /\ prog = "transfer"
    /\ mpc = "t_kcollect"
    /\ CollectKeygen("t_fatal", "t_scollect")

TransferCollectSign ==
    /\ prog = "transfer"
    /\ mpc = "t_scollect"
    /\ CollectSign("t_fatal", "t_check")

\* if len(transfer.MPCSignature) != 64 { return error }
TransferAccepts(sig) == sig.len = SignatureSize

\* on success the caller reads the signature from transfer.MPCSignature
TransferCheck ==
    /\ prog = "transfer"
    /\ mpc = "t_check"
    /\ IF TransferAccepts(finalSignature)
       THEN /\ retErr' = FALSE
            /\ retSig' = finalSignature
            /\ mpc' = "t_apply"
       ELSE /\ retErr' = TRUE
            /\ retSig' = retSig
            /\ mpc' = "t_fatal"
    /\ UNCHANGED << inVars, sideVars, setupVars, taskVars, ch, egErr, collected, keyShares,
                    finalSignature, txSig, sent, printed >>

\* applyMPCSignature: tx.Signatures = {solana.Signature(transfer.MPCSignature)}
TransferApply ==
    /\ prog = "transfer"
    /\ mpc = "t_apply"
    /\ txSig' = finalSignature
    /\ mpc' = "t_sim"
    /\ UNCHANGED << inVars, sideVars, setupVars, taskVars, ch, egErr, collected, keyShares,
                    finalSignature, retErr, retSig, sent, printed >>

\* simulateTransaction: the node's answer decides
TransferSimulate ==
    /\ prog = "transfer"
    /\ mpc = "t_sim"
    /\ \E ok \in BOOLEAN : mpc' = IF ok THEN "t_send" ELSE "t_fatal"
    /\ UNCHANGED << inVars, sideVars, setupVars, taskVars, ch, egErr, collected, keyShares,
                    finalSignature, outVars >>

\* if demoMode { ... }: the transaction is shown, not sent
TransferDemo ==
    /\ prog = "transfer"
    /\ mpc = "t_send"
    /\ DemoMode(balance)
    /\ mpc' = "t_done"
    /\ UNCHANGED << inVars, sideVars, setupVars, taskVars, ch, egErr, collected,
                    keyShares, finalSignature, outVars >>

\* else: client.SendTransaction(ctx, transfer.Transaction); its error ends
\* the program by log.Fatal, else main waits for the confirmation
TransferSend ==
    /\ prog = "transfer"
    /\ mpc = "t_send"
    /\ ~DemoMode(balance)
    /\ sent' = TRUE
    /\ \/ mpc' = "t_fatal"
       \/ mpc' = "t_wait"
    /\ UNCHANGED << inVars, sideVars, setupVars, taskVars, ch, egErr, collected, keyShares,
                    finalSignature, retErr, retSig, txSig, printed >>

\* ------------------ solana-fixed-demo.go / solana-real-transfer.go: main
DirectProgs == {"fixed", "real"}

\* a zero or insufficient balance: the fixed demo returns from main, the
\* real transfer ends by log.Fatal
RefusedPc(p) == IF p = "fixed" THEN "d_exit" ELSE "d_fatal"

\* client.RequestAirdrop(...); its error is only printed; time.Sleep
DirectAirdrop ==
    /\ prog = "real"
    /\ mpc = "d_airdrop"
    /\ mpc' = "d_balance"
    /\ UNCHANGED << inVars, sideVars, setupVars, taskVars, ch, egErr,
                    collected, keyShares, finalSignature, outVars >>

\* variant: the reserve for the fee is not asked for
BalanceSufficesNoFee(b) == b # 0 /\ b >= TransferLamports

\* neither balance.Value == 0 nor balance.Value < transferLamports+5000
BalanceSuffices(b) == b # 0 /\ ~(b < TransferLamports + FeeLamports)

\* client.GetBalance and the two tests of the balance
DirectBalance ==
    /\ prog \in DirectProgs
    /\ mpc = "d_balance"
    /\ \/ /\ mpc' = "d_fatal"
          /\ balance' = balance
       \/ /\ balance' = funds
          /\ mpc' = IF BalanceSuffices(funds) THEN "d_create"
                    ELSE RefusedPc(prog)
    /\ UNCHANGED << inVars, newBalance, transferred, funded, clientVars, pageVars,
                    setupVars, taskVars, ch, egErr, collected, keyShares,
                    finalSignature, outVars >>

\* one step of main between the balance check and the broadcast: the call
\* fails (log.Fatal) or the transaction gets on from state from to state to
DirectStep(pc, from, to, nextPc) ==
    /\ prog \in DirectProgs
    /\ mpc = pc
    /\ tx = from
    /\ \/ /\ mpc' = "d_fatal"
          /\ tx' = tx
       \/ /\ tx' = to
          /\ mpc' = nextPc
    /\ UNCHANGED << inVars, chainVars, wticks, tickReady, status, wret,
                    pageVars, setupVars, taskVars, ch, egErr, collected,
                    keyShares, finalSignature, outVars >>

\* GetLatestBlockhash, NewTransferInstruction, NewTransaction
DirectCreate == DirectStep("d_create", "none", "created", "d_sign")

\* tx.Sign with the local private key
DirectSign == DirectStep("d_sign", "created", "signed", "d_sim")

\* client.SimulateTransaction(ctx, tx); err or result.Value.Err is fatal
DirectSimulate == DirectStep("d_sim", "signed", "simulated", "d_send")

\* the transaction SendTransaction is handed: the one that was simulated
Sendable(t) == t = "simulated"

\* client.SendTransaction(ctx, tx)
DirectSend ==
    /\ prog \in DirectProgs
    /\ mpc = "d_send"
    /\ Sendable(tx)
    /\ sent' = TRUE
    /\ \/ mpc' = "d_fatal"
       \/ mpc' = "d_wait"
    /\ UNCHANGED << inVars, sideVars, setupVars, taskVars, ch, egErr,
                    collected, keyShares, finalSignature, retErr, retSig,
                    txSig, printed >>

\* ------------------------------------------------- waitForConfirmation
\* where main stands while it waits, when it verifies, when it is through
WaitPc(p) == IF p = "transfer" THEN "t_wait" ELSE "d_wait"
VerifyPc(p) == IF p = "transfer" THEN "t_verify" ELSE "d_verify"
DonePc(p) == IF p = "transfer" THEN "t_done" ELSE "d_done"

\* time.After(45 s) with NewTicker(3 s) in the fixed demo, 60 s with 2 s in
\* the other two programs
TimeoutSec(p) == IF p = "fixed" THEN 45 ELSE 60
TickSec(p) == IF p = "fixed" THEN 3 ELSE 2
TimeoutTicks(p) == TimeoutSec(p) \div TickSec(p)

\* what GetSignatureStatuses may come back with: an error, no entry, a nil
\* entry, or a status
Statuses ==
    [kind : {"status"}, state : {"processed", "confirmed", "finalized"},
     err : BOOLEAN]
PollResults ==
    [kind : {"rpcerr", "empty", "null"}, state : {"none"}, err : {FALSE}]
        \cup Statuses

\* variant: the timer has fired from the start
DeadlineAtOnce(p, n) == TRUE

\* case <-timeout: the timer has fired after TimeoutSec
DeadlinePassed(p, n) == n * TickSec(p) >= TimeoutSec(p)

\* the two tests of a status, in the order of the source: confirmed or
\* finalized returns nil, else a non-nil Err returns the failure
WaitOutcome(st) ==
    CASE st.state \in {"confirmed", "finalized"} -> "nil"
      [] st.err -> "failed"
      [] OTHER -> "none"

\* the select blocks until the next tick: one ticker period passes
WaitElapse ==
    /\ prog \in ClientProgs
    /\ mpc = WaitPc(prog)
    /\ ~tickReady
    /\ ~DeadlinePassed(prog, wticks)
    /\ wticks' = wticks + 1
    /\ tickReady' = TRUE
    /\ UNCHANGED << inVars, chainVars, tx, status, wret, pageVars, setupVars,
                    taskVars, mpc, ch, egErr, collected, keyShares,
                    finalSignature, outVars >>

\* case <-ticker.C: one poll of the status; on a return the ticker is
\* stopped (defer ticker.Stop()) and the timers of the call are gone
WaitPoll ==
    /\ prog \in ClientProgs
    /\ mpc = WaitPc(prog)
    /\ tickReady
    /\ tickReady' = FALSE
    /\ \E res \in PollResults :
          IF res.kind = "status"
          THEN /\ status' = res
               /\ wret' = WaitOutcome(res)
               /\ mpc' = IF WaitOutcome(res) = "none" THEN mpc
                         ELSE VerifyPc(prog)
               /\ wticks' = IF WaitOutcome(res) = "none" THEN wticks ELSE 0
          ELSE UNCHANGED << status, wret, mpc, wticks >>
    /\ UNCHANGED << inVars, chainVars, tx, pageVars, setupVars,
                    taskVars, ch, egErr, collected, keyShares,
                    finalSignature, outVars >>

\* case <-timeout: return fmt.Errorf("timeout")
WaitTimeout ==
    /\ prog \in ClientProgs
    /\ mpc = WaitPc(prog)
    /\ DeadlinePassed(prog, wticks)
    /\ wret' = "timeout"
    /\ mpc' = VerifyPc(prog)
    /\ wticks' = 0
    /\ tickReady' = FALSE
    /\ UNCHANGED << inVars, chainVars, tx, status,
                    pageVars, setupVars, taskVars, ch, egErr, collected,
                    keyShares, finalSignature, outVars >>

\* ------------------------------------------------ the amount transferred
\* an unsigned 64-bit number as four 16-bit limbs, lowest first
LimbBase == 65536
ToU64(n) ==
    << n % LimbBase, (n \div LimbBase) % LimbBase,
       ((n \div LimbBase) \div LimbBase) % LimbBase, 0 >>

\* one limb of a subtraction: the digit and the borrow it passes on
SubLimb(x, y, borrow) ==
    LET d == x - y - borrow IN
    IF d < 0 THEN [digit |-> d + LimbBase, borrow |-> 1]
    ELSE [digit |-> d, borrow |-> 0]

\* balance.Value - newBalance.Value on uint64: the borrow out of the
\* highest limb is dropped
Sub64(a, b) ==
    LET x == ToU64(a)
        y == ToU64(b)
        l1 == SubLimb(x[1], y[1], 0)
        l2 == SubLimb(x[2], y[2], l1.borrow)
        l3 == SubLimb(x[3], y[3], l2.borrow)
        l4 == SubLimb(x[4], y[4], l3.borrow)
    IN << l1.digit, l2.digit, l3.digit, l4.digit >>

\* what the node may report after the transfer: the old balance less the
\* amount and the fee, or any other balance
NewBalances(b) == Balances \cup {b - NeededLamports}

\* time.Sleep; newBalance, err := client.GetBalance(...); the amount sent
DirectVerify ==
    /\ prog \in ClientProgs
    /\ mpc = VerifyPc(prog)
    /\ mpc' = DonePc(prog)
    /\ \/ UNCHANGED << newBalance, transferred >>
       \/ \E nb \in NewBalances(balance) :
             /\ newBalance' = nb
             /\ transferred' = Sub64(balance, nb)
    /\ UNCHANGED << inVars, balance, funded, clientVars, pageVars, setupVars,
                    taskVars, ch, egErr, collected, keyShares,
                    finalSignature, outVars >>

\* ------------------------------------------- solana-frost-demo/main.go
\* frostSign: the bytes the external signer printed, or an error
FrostSign ==
    /\ prog = "frost"
    /\ mpc = "f_start"
    /\ \/ /\ retErr' = TRUE
          /\ retSig' = retSig
          /\ mpc' = "f_fatal"
       \/ /\ \E l \in SigLens :
                retSig' = IF l = 0 THEN NoSig
                          ELSE [len |-> l, key |-> WalletQ, msg |-> Message,
                                by |-> signatureReceiver]
          /\ retErr' = FALSE
          /\ mpc' = "f_check"
    /\ UNCHANGED << inVars, sideVars, setupVars, taskVars, ch, egErr, collected, keyShares,
                    finalSignature, txSig, sent, printed >>

\* if len(sigBytes) != 64 { log.Fatalf(...) }
FrostAccepts(sig) == sig.len = SignatureSize

FrostCheck ==
    /\ prog = "frost"
    /\ mpc = "f_check"
    /\ IF FrostAccepts(retSig)
       THEN /\ txSig' = Copy64(retSig)
            /\ mpc' = "f_send"
       ELSE /\ txSig' = txSig
            /\ mpc' = "f_fatal"
    /\ UNCHANGED << inVars, sideVars, setupVars, taskVars, ch, egErr, collected, keyShares,
                    finalSignature, retErr, retSig, sent, printed >>

\* client.SendTransaction; its error ends the program by log.Fatalf
FrostSend ==
    /\ prog = "frost"
    /\ mpc = "f_send"
    /\ sent' = TRUE
    /\ \/ mpc' = "f_fatal"
       \/ mpc' = "f_done"
    /\ UNCHANGED << inVars, sideVars, setupVars, taskVars, ch, egErr, collected, keyShares,
                    finalSignature, retErr, retSig, txSig, printed >>

\* ------------------------------------------------------- specification
Main ==
    \/ CompleteFund \/ CompleteStart \/ CompleteSetupFail \/ CompleteWait \/ CompleteApply \/ CompleteSend
    \/ GeneratorStart \/ GeneratorWait \/ GeneratorExtractQ \/ GeneratorMarshal
    \/ SignerStart \/ SignerCollectKeygen \/ SignerCollectSign \/ SignerCheck
    \/ TransferStart \/ TransferCollectKeygen \/ TransferCollectSign
    \/ TransferCheck \/ TransferApply \/ TransferSimulate \/ TransferDemo
    \/ TransferSend \/ WaitElapse \/ WaitPoll \/ WaitTimeout \/ DirectVerify
    \/ FrostSign \/ FrostCheck \/ FrostSend

Next ==
    \/ Main
    \/ \E r \in Runs, i \in Parties : TaskStep(r, i)

Spec == Init /\ [][Next]_vars

\* the two direct transfers, on a wallet that holds any of the balances
ClientInit ==
    /\ prog \in DirectProgs
    /\ acK = CodeThreshold
    /\ quorum = CodeQuorum
    /\ jobTotal = CodeJobTotal(prog)
    /\ funds \in Balances
    /\ InitRest

ClientNext ==
    \/ DirectAirdrop \/ DirectBalance \/ DirectCreate \/ DirectSign
    \/ DirectSimulate \/ DirectSend
    \/ WaitElapse \/ WaitPoll \/ WaitTimeout \/ DirectVerify

ClientSpec == ClientInit /\ [][ClientNext]_vars

\* the devnet transfer alone, on an empty wallet, on one that is a lamport
\* short of the amount and the fee, and on one that holds them
DemoFunds == {0, NeededLamports - 1, NeededLamports}

TransferInit ==
    /\ prog = "transfer"
    /\ acK = CodeThreshold
    /\ quorum = CodeQuorum
    /\ jobTotal = CodeJobTotal(prog)
    /\ funds \in DemoFunds
    /\ InitRest

TransferNext ==
    \/ TransferStart \/ TransferCollectKeygen \/ TransferCollectSign
    \/ TransferCheck \/ TransferApply \/ TransferSimulate \/ TransferDemo
    \/ TransferSend \/ WaitElapse \/ WaitPoll \/ WaitTimeout \/ DirectVerify
    \/ \E r \in Runs, i \in Parties :
          \/ TaskOpen(r, i)
          \/ ProtoSendOk(r, i)
          \/ ProtoSendFail(r, i)
          \/ ProtoRecvOk(r, i)
          \/ ProtoRecvFail(r, i)
          \/ ChTaskSend(r, i)
          \/ ChTaskFree(r, i)

TransferSpec == TransferInit /\ [][TransferNext]_vars

\* the main goroutine keeps running, and time passes
ClientFairSpec == ClientSpec /\ WF_vars(ClientNext)

\* ------------------------------------ templates/dkg_connection_waiting.html
\* setTimeout(pollForDKGStart, 1000) at the end of the script, 2000 after an
\* answer "not initiated", 3000 after a failed poll
FirstDelay == 1000
PollDelay == 2000
RetryDelay == 3000

\* how a poll may end: fetch rejects, the response is not ok, its body is
\* not JSON, the JSON is null, or data arrives with initiated false or true
Failures == {"neterr", "status", "badjson", "null"}
Answers(up, init) ==
    IF up THEN {IF init THEN "yes" ELSE "no"} ELSE Failures

\* the outcomes that end in .catch: a rejected fetch, the throw on
\* !response.ok, a rejected response.json(), data.initiated of null
Rejected(o) == o \in Failures

\* variant: the branch of data.initiated goes on polling as well
ThenTimersAlways(o) == << PollDelay >>

\* .then(data => ...): setTimeout only in the else branch of data.initiated
ThenTimers(o) == IF o = "yes" THEN << >> ELSE << PollDelay >>

\* variant: the catch handler gives up
CatchTimersNone == << >>

\* .catch(error => ...): setTimeout(pollForDKGStart, 3000)
CatchTimers == << RetryDelay >>

Saturate(n, max) == IF n < max THEN n + 1 ELSE n

\* the template is swapped into the page and its script runs
PageLoad ==
    /\ prog = "page"
    /\ ppc = "off"
    /\ ppc' = "polling"
    /\ shown' = [state |-> "waiting", errorMsg |-> FALSE]
    /\ ptimer' = << FirstDelay >>
    /\ UNCHANGED << inVars, chainVars, clientVars, initiated, netUp, polls,
                    inFlight, autoCalls, setupVars, taskVars, mpc, ch, egErr,
                    collected, keyShares, finalSignature, outVars >>

\* a timer fires: pollForDKGStart runs and calls fetch(pollUrl)
PageTimer ==
    /\ prog = "page"
    /\ \E n \in 1 .. Len(ptimer) :
          ptimer' = [k \in 1 .. (Len(ptimer) - 1) |->
                        IF k < n THEN ptimer[k] ELSE ptimer[k + 1]]
    /\ inFlight' = inFlight + 1
    /\ polls' = Saturate(polls, MaxPolls)
    /\ UNCHANGED << inVars, chainVars, clientVars, ppc, initiated, netUp,
                    autoCalls, shown, setupVars, taskVars, mpc, ch, egErr,
                    collected, keyShares, finalSignature, outVars >>

\* the poll settles and one of the two handlers runs
PagePollAnswer ==
    /\ prog = "page"
    /\ inFlight > 0
    /\ inFlight' = inFlight - 1
    /\ \E o \in Answers(netUp, initiated) :
          IF Rejected(o)
          THEN /\ shown' = IF shown.state \in {"waiting", "execution"}
                           THEN [shown EXCEPT !.errorMsg = TRUE]
                           ELSE shown
               /\ ptimer' = ptimer \o CatchTimers
               /\ UNCHANGED << ppc, autoCalls >>
          ELSE IF o = "yes"
          THEN /\ shown' = [shown EXCEPT !.state = "execution"]
               /\ autoCalls' = Saturate(autoCalls, MaxCalls)
               /\ ppc' = "executing"
               /\ ptimer' = ptimer \o ThenTimers(o)
          ELSE /\ ptimer' = ptimer \o ThenTimers(o)
               /\ UNCHANGED << ppc, autoCalls, shown >>
    /\ UNCHANGED << inVars, chainVars, clientVars, initiated, netUp, polls,
                    setupVars, taskVars, mpc, ch, egErr, collected,
                    keyShares, finalSignature, outVars >>

\* the auto-execute request settles: the answer or the error takes the
\* place of the waiting content, the polling error message with it
PageAutoAnswer ==
    /\ prog = "page"
    /\ ppc = "executing"
    /\ ppc' = "settled"
    /\ \E ok \in BOOLEAN :
          shown' = [state |-> IF ok THEN "result" ELSE "failure",
                    errorMsg |-> FALSE]
    /\ UNCHANGED << inVars, chainVars, clientVars, ptimer, initiated, netUp,
                    polls, inFlight, autoCalls, setupVars, taskVars, mpc, ch,
                    egErr, collected, keyShares, finalSignature, outVars >>

\* Party 0 starts the DKG
Party0Initiates ==
    /\ prog = "page"
    /\ ~initiated
    /\ initiated' = TRUE
    /\ UNCHANGED << inVars, chainVars, clientVars, ppc, ptimer, netUp, polls,
                    inFlight, autoCalls, shown, setupVars, taskVars, mpc, ch,
                    egErr, collected, keyShares, finalSignature, outVars >>

\* Party 0's server gets out of reach of the page, or back into it
NetworkTurns ==
    /\ prog = "page"
    /\ netUp' = ~netUp
    /\ UNCHANGED << inVars, chainVars, clientVars, ppc, ptimer, initiated,
                    polls, inFlight, autoCalls, shown, setupVars, taskVars,
                    mpc, ch, egErr, collected, keyShares, finalSignature,
                    outVars >>

PageInit ==
    /\ prog = "page"
    /\ acK = CodeThreshold
    /\ quorum = CodeQuorum
    /\ jobTotal = CodeJobTotal(prog)
    /\ funds = NeededLamports
    /\ InitRest

\* what the browser does
PageStep == PageLoad \/ PageTimer \/ PagePollAnswer \/ PageAutoAnswer

PageNext == PageStep \/ Party0Initiates \/ NetworkTurns

PageSpec == PageInit /\ [][PageNext]_vars

\* timers fire and requests settle
PageFairSpec == PageSpec /\ WF_vars(PageStep)

\* the same program with the inputs of its contracts drawn from bounded
\* sets: the threshold and the quorum list handed to performMPCSigning's
\* set-up, and the party count handed to every NewJobMP
Thresholds == 0 .. (nParties + ExtraParties)
JobTotals == 0 .. (nParties + ExtraParties)
Quorums ==
    UNION { { q \in [1 .. n -> Range(PartyNames("complete"))] :
                \A x, y \in 1 .. n : q[x] = q[y] => x = y } :
            n \in 0 .. nParties }

InitContract ==
    /\ prog \in Progs
    /\ acK \in (IF prog = "complete" THEN Thresholds ELSE {CodeThreshold})
    /\ quorum \in (IF prog = "complete" THEN Quorums ELSE {CodeQuorum})
    /\ jobTotal \in JobTotals
    /\ funds \in StartFunds(prog)
    /\ InitRest

ContractSpec == InitContract /\ [][Next]_vars

\* every runnable goroutine is scheduled eventually
FairSpec ==
    /\ Spec
    /\ WF_vars(Main)
    /\ \A r \in Runs, i \in Parties : WF_vars(TaskStep(r, i))

TypeOK ==
    /\ prog \in Progs \cup ClientProgs \cup {"page"}
    /\ collected \in 0 .. nParties
    /\ egErr \in BOOLEAN
    /\ retErr \in BOOLEAN
    /\ sent \in BOOLEAN
    /\ \A r \in Runs : Len(ch[r]) <= nParties
    /\ acK \in Thresholds
    /\ quorum \in Quorums
    /\ jobTotal \in JobTotals
    /\ messengers \in {0, nQuorumParties, nParties}


\* ------------------------------------------------------------ properties
SignFailed == \E i \in Members(prog, "sign") : resp["sign"][i].err
KeygenFailed == \E i \in Members(prog, "keygen") : resp["keygen"][i].err
TaskFailed == \E r \in Runs, i \in Parties : resp[r][i].err

\* the signing function of the program has returned to main: main is past
\* the call, or has ended after the function returned an error or what it
\* signed (main may also end before the call, with neither)
SignReturned ==
    \/ mpc \in {"c_apply", "c_send", "c_done", "s_done",
                "t_apply", "t_sim", "t_send", "t_wait", "t_verify", "t_done"}
    \/ /\ mpc \in {"c_fatal", "s_fatal", "t_fatal"}
       /\ (retErr \/ retSig # NoSig)

\* the wallet generator took the DKG run over
GeneratorAccepted == prog = "generator" /\ mpc \in {"g_q", "g_marshal", "g_done"}

\* C1: a signature that was put into a transaction came out of the signing
\* run with exactly 64 bytes; any other length is rejected, never accepted.
C1_SignatureLength64 ==
    txSig # NoSig => retSig.len = SignatureSize

\* C2: a DKG run is taken over only if the public keys Q of all n parties
\* are identical.
C2_AcceptedOnlyIfQIdentical ==
    GeneratorAccepted =>
        \A i, j \in Members(prog, "keygen") : keyShares[i].Q = keyShares[j].Q

\* C3: a signature returned by a signing run in which every member finished
\* without error is a signature over the message under the wallet's key Q.
C3_SignatureUnderWalletKey ==
    (SignReturned /\ ~retErr /\ retSig # NoSig) =>
        (retSig.key = WalletQ /\ retSig.msg = Message)

\* C4: when a member of the signing run failed, performMPCSigning returns an
\* error and no signature, also if the receiver had produced one already.
C4_SigningAllOrNothing ==
    (prog \in {"complete", "signer"} /\ SignFailed /\ SignReturned) =>
        (retErr /\ retSig = NoSig /\ txSig = NoSig /\ ~sent)

C4_Witness ==
    /\ prog = "complete"
    /\ SignFailed
    /\ finalSignature # NoSig
    /\ mpc = "c_fatal"
    /\ retErr
    /\ retSig = NoSig

\* C5: when a party of the key generation failed, nothing of that run is
\* written out, taken over or used, whatever the other parties produced.
C5_DkgAllOrNothing ==
    KeygenFailed =>
        /\ printed = {}
        /\ ~GeneratorAccepted
        /\ \A i \in Parties : tpc["sign"][i] = "idle"
        /\ retSig = NoSig

C5_Witness ==
    /\ prog = "generator"
    /\ KeygenFailed
    /\ \E i \in Parties : keyShares[i] # NoShare
    /\ mpc = "g_fatal"
    /\ printed = {}

\* C6: no endpoint carries two open sessions at once: the signing session of
\* party i is not open while its key generation session still is.
C6_OneSessionPerEndpoint ==
    \A i \in Parties : ~(jobOpen["keygen"][i] /\ jobOpen["sign"][i])

\* C7: once a party's task has failed, the orchestrating call eventually
\* returns a failure.
C7_FailureAbortsRun ==
    TaskFailed ~> retErr

\* C8: once the run is marked failed, no task writes the shared result state
\* (the key share slots of a DKG run, the final signature) any more.
C8_NoWriteAfterFailure ==
    [][ (egErr \/ retErr) =>
            /\ prog # "complete" => keyShares' = keyShares
            /\ finalSignature' = finalSignature ]_vars

\* C9: every session that was opened is closed again eventually.
C9_SessionsClosed ==
    \A r \in Runs, i \in Parties : jobOpen[r][i] ~> ~jobOpen[r][i]

\* C10: the final signature of a signing run is the output of the member
\* whose index is the receiver index, and of no other member.
C10_OnlyReceiverContributes ==
    /\ finalSignature # NoSig =>
          /\ finalSignature.by = signatureReceiver
          /\ finalSignature = resp["sign"][signatureReceiver].sig
    /\ (prog # "frost" /\ retSig # NoSig) =>
          retSig = resp["sign"][signatureReceiver].sig

C10_Witness ==
    /\ prog \in {"complete", "transfer"}
    /\ \E i \in Members(prog, "sign") :
          i # signatureReceiver /\ resp["sign"][i].sig = JunkSig(i)
    /\ SignReturned
    /\ ~retErr
    /\ retSig.by = signatureReceiver
    /\ retSig.len = SignatureSize

\* no session, no goroutine and no message of any run exists
NoRunState ==
    \A r \in Runs, i \in Parties :
        /\ ~jobOpen[r][i]
        /\ tpc[r][i] = "idle"
        /\ inbox[r][i] = {}

\* C11: a share conversion whose quorum does not satisfy the access
\* structure fails before any protocol call or network interaction and
\* leaves no additive share, no session and no transport behind.
C11_UnauthorizedQuorumFailsFast ==
    (prog = "complete" /\ ac # NoAC /\ ~Satisfies(ac.root, Range(quorum))) =>
        /\ retErr
        /\ mpc = "c_fatal"
        /\ \A i \in Parties : keyShares[i] = NoShare /\ convArgs[i] = NoConv
        /\ messengers = 0
        /\ NoRunState

C11_Witness ==
    /\ prog = "complete"
    /\ mpc = "c_fatal"
    /\ acK = CodeThreshold
    /\ quorum = << "server" >>
    /\ retErr
    /\ NoRunState

\* C12: on a valid access structure the satisfaction test is the recursive
\* one (leaf: its party is in S; threshold node: at least k children are
\* satisfied); on the flat structure of createThresholdAccessStructure a set
\* of names is authorized iff it holds at least k of the party names, and a
\* conversion goes through for exactly the authorized quorums.
C12_FlatThresholdAuthorizes ==
    (ac # NoAC /\ ValidNode(ac.root)) =>
        /\ \A S \in SUBSET Range(PartyNames(prog)) :
              Satisfies(ac.root, S) <=> Cardinality(S) >= acK
        /\ prog = "complete" =>
              (convArgs[0] # NoConv <=> Cardinality(Range(quorum)) >= acK)

C12_Witness ==
    /\ prog = "complete"
    /\ acK = CodeThreshold
    /\ quorum = << "pin", "kms" >>
    /\ ValidNode(ac.root)
    /\ Satisfies(ac.root, {"pin", "kms"})
    /\ ~Satisfies(ac.root, {"server"})
    /\ ~Satisfies(ac.root, {})
    /\ convArgs[0] # NoConv

\* the arguments of NewJobMP in goroutine i meet the session contract
SessionConfigOk(i) ==
    /\ 0 <= i
    /\ i < jobTotal
    /\ Len(PartyNames(prog)) = jobTotal

\* C14: a session is open only if 0 <= my_index < total_parties and there is
\* one party name per party; a task whose open call broke this contract has
\* reported a failure and has run no protocol step: it sent no message and
\* holds no protocol output.
C14_SessionOpenContract ==
    \A r \in Runs, i \in Parties :
        /\ jobOpen[r][i] => SessionConfigOk(i)
        /\ (tpc[r][i] \notin {"idle", "new"} /\ ~SessionConfigOk(i)) =>
              /\ resp[r][i].err
              /\ ~jobOpen[r][i]
              /\ tpc[r][i] \in {"return", "report", "done"}
              /\ \A j \in Parties : i \notin inbox[r][j]
              /\ resp[r][i].share = NoShare
              /\ resp[r][i].sig = NoSig

C14_Witness ==
    /\ prog = "signer"
    /\ jobTotal = nParties + 1
    /\ tpc["keygen"][1] = "done"
    /\ resp["keygen"][1].err
    /\ ~jobOpen["keygen"][1]
    /\ 1 \notin inbox["keygen"][0]
    /\ retErr

\* the goroutines that were started for run r
Started(r) == { i \in Parties : tpc[r][i] # "idle" }

\* C15: a run has exactly total_parties party tasks, one per session and
\* transport endpoint: the party count handed to the sessions of the run is
\* the number of goroutines started and the number of endpoints of the
\* network.
C15_TasksMatchTotalParties ==
    \A r \in Runs :
        Started(r) # {} =>
            /\ Cardinality(Started(r)) = TotalParties(prog, r)
            /\ messengers = TotalParties(prog, r)

\* C16: receive-next has no timeout: a party of the quorum signing run whose
\* peer never sends the awaited message stays blocked in its protocol call
\* for ever, and the signing run never returns to its caller.
C16_BlockedWithoutTimeout ==
    \A i, j \in Members("complete", "sign") :
        (/\ i # j
         /\ [](prog = "complete" /\ j \notin inbox["sign"][i])
         /\ <>(tpc["sign"][i] = "wait"))
        => (/\ <>[](tpc["sign"][i] = "wait" /\ jobOpen["sign"][i])
            /\ []~SignReturned)

C16_Witness ==
    /\ prog = "complete"
    /\ mpc = "c_wait"
    /\ tpc["sign"][0] = "wait"
    /\ jobOpen["sign"][0]
    /\ 1 \notin inbox["sign"][0]
    /\ tpc["sign"][1] = "call"
    /\ ~resp["sign"][1].err

\* the access structure of the DKG run of the wallet generator
DkgAccessStructure ==
    createThresholdAccessStructure(PartyNames("generator"), CodeThreshold)

\* C17: all members of the signing quorum convert their shares with one and
\* the same quorum list (same names, same order) and with the access
\* structure of the DKG run.
C17_OneCanonicalQuorum ==
    prog = "complete" =>
        \A i, j \in Members(prog, "sign") :
            /\ convArgs[i] = convArgs[j]
            /\ convArgs[i] # NoConv =>
                  /\ convArgs[i].quorum = quorum
                  /\ convArgs[i].ac = DkgAccessStructure

C17_Witness ==
    /\ prog = "complete"
    /\ convArgs[0] = [quorum |-> CodeQuorum, ac |-> DkgAccessStructure]
    /\ convArgs[1] = [quorum |-> CodeQuorum, ac |-> DkgAccessStructure]
    /\ SignReturned
    /\ ~retErr
    /\ retSig # NoSig

\* C18: additive shares and sessions live inside one signing invocation
\* only: none exists before performMPCSigning has made them, none is left
\* when it has returned, and a session is open only while the call runs.
C18_FreshSharesAndSessions ==
    prog = "complete" =>
        /\ (mpc = "c_start" \/ SignReturned) =>
              \A i \in Parties :
                  /\ keyShares[i] = NoShare
                  /\ \A r \in Runs : ~jobOpen[r][i]
        /\ \A i \in Parties : jobOpen["sign"][i] => mpc = "c_wait"

C18_Witness ==
    /\ prog = "complete"
    /\ SignReturned
    /\ ~retErr
    /\ convArgs[0] # NoConv
    /\ resp["sign"][0].sig # NoSig
    /\ resp["sign"][1].sig # NoSig
    /\ \A i \in Parties : keyShares[i] = NoShare /\ ~jobOpen["sign"][i]

\* C19: the key share slot of party i is written at most once, with the
\* share that the task running as party i produced, and is not changed
\* afterwards; in the errgroup programs the writing step is that task's own.
C19_OneProducerPerSlot ==
    [][ prog # "complete" =>
          \A i \in Parties :
              keyShares'[i] # keyShares[i] =>
                  /\ keyShares[i] = NoShare
                  /\ keyShares'[i] = resp["keygen"][i].share
                  /\ keyShares'[i].owner = PartyNames(prog)[i + 1]
                  /\ UsesErrgroup(prog) =>
                        /\ tpc["keygen"][i] = "write"
                        /\ tpc'["keygen"][i] = "return" ]_vars

C19_Witness ==
    /\ prog = "generator"
    /\ \A i \in Members(prog, "keygen") :
          /\ keyShares[i] # NoShare
          /\ keyShares[i] = resp["keygen"][i].share
    /\ keyShares[0].Q # keyShares[1].Q
    /\ mpc = "g_wait"

\* C20: a signing goroutine exists only after the result of every keygen
\* goroutine has been collected, and every one of them was a success.
C20_SignAfterKeygenComplete ==
    (prog \in {"signer", "transfer"} /\ Started("sign") # {}) =>
        /\ ch["keygen"] = << >>
        /\ \A j \in Members(prog, "keygen") :
              /\ tpc["keygen"][j] \in {"free", "done"}
              /\ ~resp["keygen"][j].err
              /\ keyShares[j] # NoShare
              /\ keyShares[j] = resp["keygen"][j].share

C20_Witness ==
    /\ prog = "signer"
    /\ tpc["sign"][0] = "call"
    /\ tpc["sign"][1] = "new"
    /\ tpc["keygen"][2] = "free"
    /\ \A j \in Members(prog, "keygen") : keyShares[j] # NoShare

\* the party name under which goroutine i of the program opens its session
RunsAs(i) == PartyNames(prog)[i + 1]

\* C21: the transaction signer signs with the quorum S1 (server) + S3 (PIN):
\* exactly these two parties run the signing, with the stored share of the
\* wallet, and the KMS party takes no part.
C21_SignerQuorumS1S3 ==
    (prog = "signer" /\ Started("sign") # {}) =>
        /\ Cardinality(Started("sign")) = nQuorumParties
        /\ \A i \in Started("sign") :
              /\ RunsAs(i) \in {"server", "pin-device"}
              /\ ReqShare(i).Q = WalletQ

\* C22: in the quorum signing run every member opens its session with the
\* index at which its own name stands in the party-name list: the holder
\* of the share of party x runs as party x.
C22_MemberRunsUnderOwnName ==
    prog = "complete" =>
        \A i \in Parties :
            jobOpen["sign"][i] => RunsAs(i) = ReqShare(i).owner

\* C23: waitForConfirmation returns nil only for a status without error: a
\* status with a non-nil Err that it acts on makes it return the failure,
\* also when that status is confirmed or finalized.
C23_NilOnlyWithoutError ==
    /\ wret = "nil" => ~status.err
    /\ status.err => wret = "failed"

\* C24: waitForConfirmation always returns: with nil on a confirmed or
\* finalized status, with the failure on a failed status, with a timeout
\* once the deadline has passed; nothing else ends the wait, so a failing
\* query or an empty or nil status is followed by the next tick.
C24_WaitTerminates ==
    /\ (mpc = WaitPc(prog)) ~> (mpc = VerifyPc(prog) /\ wret # "none")
    /\ [][ (mpc = WaitPc(prog) /\ mpc' # mpc) =>
             \/ /\ wret' = "nil"
                /\ status'.state \in {"confirmed", "finalized"}
             \/ /\ wret' = "failed"
                /\ status'.err
             \/ /\ wret' = "timeout"
                /\ wticks * TickSec(prog) >= TimeoutSec(prog) ]_vars
    /\ [](mpc = WaitPc(prog) => wret = "none")

C24_Witness ==
    /\ prog = "fixed"
    /\ mpc = "d_verify"
    /\ wret = "timeout"
    /\ status = [kind |-> "status", state |-> "processed", err |-> FALSE]

\* C25: a goroutine that has its result ready always finds room in the
\* result channel, also after the collecting loop has returned on a first
\* error; every goroutine puts at most one result into the channel.
C25_ResultSendNeverBlocks ==
    prog \in {"signer", "transfer"} =>
        \A r \in Runs :
            /\ \A i \in Parties :
                  tpc[r][i] = "report" => Len(ch[r]) < ChanCap(r)
            /\ \A m, n \in 1 .. Len(ch[r]) :
                  ch[r][m].idx = ch[r][n].idx => m = n
            /\ \A n \in 1 .. Len(ch[r]) :
                  tpc[r][ch[r][n].idx] \in {"free", "done"}

C25_Witness ==
    /\ prog = "signer"
    /\ mpc = "s_fatal"
    /\ retErr
    /\ Len(ch["keygen"]) = 1
    /\ \E i \in Parties : tpc["keygen"][i] = "report"

\* C26: a direct transfer is broadcast only after the balance check has
\* passed (balance >= amount + 5000 lamports) and the simulation of the
\* signed transaction gave no error; on a zero or insufficient balance the
\* program stops with no transaction created, signed or sent.
C26_BroadcastAfterChecks ==
    prog \in DirectProgs =>
        /\ sent =>
              /\ balance >= TransferLamports + FeeLamports
              /\ tx = "simulated"
        /\ (balance # NoBalance /\ balance < TransferLamports + FeeLamports) =>
              /\ tx = "none"
              /\ ~sent
              /\ mpc \in {"d_exit", "d_fatal"}

C26_Witness ==
    /\ prog = "real"
    /\ balance = NeededLamports
    /\ tx = "simulated"
    /\ sent
    /\ mpc = "d_wait"

\* C27: in demo mode (balance < amount + 5000 lamports, a zero balance
\* included) the devnet transfer builds and signs its transaction but
\* never calls SendTransaction.
C27_DemoModeNeverBroadcasts ==
    (prog = "transfer" /\ balance # NoBalance
        /\ balance < TransferLamports + FeeLamports) =>
        /\ ~sent
        /\ mpc = "t_done" => (tx = "created" /\ txSig.len = SignatureSize)

C27_Witness ==
    /\ prog = "transfer"
    /\ balance = 0
    /\ mpc = "t_done"
    /\ tx = "created"
    /\ txSig.len = SignatureSize
    /\ ~sent

\* C28: the waiting page calls the auto-execute endpoint only when a poll of
\* Party 0 has answered that DKG is initiated, and at most once: after that
\* answer no poll is pending or scheduled and no second call is made,
\* whether the auto-execute request succeeds or fails.
C28_AutoExecuteOnce ==
    /\ [](autoCalls <= 1)
    /\ [](autoCalls = 1 =>
            /\ initiated
            /\ ptimer = << >>
            /\ inFlight = 0
            /\ ppc \in {"executing", "settled"})
    /\ [][ autoCalls' # autoCalls =>
             /\ autoCalls = 0
             /\ inFlight = 1
             /\ inFlight' = 0
             /\ initiated
             /\ netUp ]_vars

C28_Witness ==
    /\ prog = "page"
    /\ autoCalls = 1
    /\ ppc = "settled"
    /\ shown.state = "failure"
    /\ polls >= 2
    /\ ptimer = << >>

\* C29: until DKG is initiated the waiting page keeps polling: an answer
\* "not initiated" sets the next poll in 2 s, a failed poll a retry in 3 s,
\* and at most one poll is set or outstanding at any time; so if Party 0
\* initiates DKG and polls succeed from some time on, the auto-execute
\* endpoint is called.
C29_KeepsPolling ==
    /\ [](Len(ptimer) + inFlight <= 1)
    /\ [](ppc = "polling" => Len(ptimer) + inFlight = 1)
    /\ [][ inFlight' < inFlight =>
             /\ ~netUp => ptimer' = << RetryDelay >>
             /\ (netUp /\ ~initiated) => ptimer' = << PollDelay >> ]_vars
    /\ (<>[]netUp /\ <>initiated) => <>(autoCalls > 0)

C29_Witness ==
    /\ prog = "page"
    /\ ppc = "executing"
    /\ autoCalls = 1
    /\ shown = [state |-> "execution", errorMsg |-> TRUE]
    /\ polls >= 3

\* C30: the amount reported as transferred is the balance before less the
\* balance after, a non-negative number of lamports: the subtraction does
\* not wrap around.
C30_TransferredIsDifference ==
    transferred # NoAmount =>
        /\ balance >= newBalance
        /\ transferred = ToU64(balance - newBalance)

====
